---- MODULE Spec2Model ----
(***************************************************************************)
(* State-machine model of the ayats editor (React component App).          *)
(* src/ holds three revisions of the component: src/App.tsx lines 1-634    *)
(* (revision "A"), src/App.tsx lines 636-1151 (revision "B") and           *)
(* src/unnamed/part_000 (revision "C"), plus the verse service             *)
(* src/unnamed/part_001.  The variable `revision` fixes which one runs.    *)
(***************************************************************************)
EXTENDS Integers, Sequences, FiniteSets, TLC

VARIABLES
  revision,       \* which revision of App is running
  phase,          \* "constructed" (useState done), "mounted", "crashed"
  localStorage,   \* the browser key/value store, one field per key
  surahs,         \* useState<Surah[]>: chapter list held in memory
  surahsPending,  \* fetchSurahs() promise not yet settled
  searchTerm,     \* useState(''): the chapter search box, as its characters
  selectedSurah,  \* useState<number>
  selectedVerse,  \* useState<number>
  verseData,      \* useState<Verse | null>
  loading,        \* useState(false)
  pending,        \* loadVerse calls suspended at `await fetchVerse`, oldest first
  latestResult,   \* history: what the latest-triggered fetchVerse returned
  exporting,      \* useState(false)
  captures,       \* handleExport calls suspended at `await toPng/toJpeg`
  downloads,      \* files link.click() handed to the browser, oldest first
  exportLog,      \* history: how each finished capture ended, oldest first
  settings,       \* useState<EditorSettings>
  uploads,        \* FileReader reads in progress, each with its onload closure
  presets,        \* useState<SavedPreset[]>
  presetName,     \* useState('')
  now,            \* the reading Date.now() returns
  isDarkMode,     \* useState(false)
  loadedFrom      \* history: the preset loadPreset installed, while the live
                  \* settings have not been replaced since

vars == <<revision, phase, localStorage, surahs, surahsPending, searchTerm,
          selectedSurah, selectedVerse, verseData, loading, pending, latestResult,
          exporting, captures, downloads, exportLog, settings, uploads, presets,
          presetName, now, isDarkMode, loadedFrom>>

verseVars   == <<selectedSurah, selectedVerse, verseData, loading, pending, latestResult>>
surahVars   == <<surahs, surahsPending>>
exportVars  == <<exporting, captures, downloads, exportLog>>
presetVars  == <<presets, presetName>>

----------------------------------------------------------------------------
(* Bounds of the model *)

NumSurahs   == 2   \* chapters the remote API serves
MaxPending  == 2   \* verse fetches in flight at once
MaxCaptures == 2   \* export captures in flight at once
MaxExports  == 2   \* export captures started in all
MaxUploads  == 1   \* FileReader reads in flight at once
MaxPresets  == 2   \* length of the preset list
MaxClock    == 1   \* largest Date.now() reading

Revisions == {"A", "B", "C"}

\* JavaScript null (of an object-typed value) and undefined (of a string-typed one)
Null      == <<>>
Undefined == "undefined"

Remove(seq, i) == [j \in 1..(Len(seq) - 1) |-> IF j < i THEN seq[j] ELSE seq[j + 1]]

----------------------------------------------------------------------------
(* The remote verse API, src/unnamed/part_001 *)

SurahIds == 1..NumSurahs

\* jumlahAyat of chapter s in the corpus the API serves
JumlahAyat(s) == s + 1

\* GET /surat : the chapter list
SurahList == [s \in SurahIds |-> [nomor |-> s, jumlahAyat |-> JumlahAyat(s)]]

\* GET /surat/{s} : data.ayat of chapter s; teks stands for teksArab/teksIndonesia
Ayat(s) == IF s \in SurahIds
             THEN [v \in 1..JumlahAyat(s) |-> [nomorAyat |-> v, teks |-> <<s, v>>]]
             ELSE <<>>

\* what GET /surat can come to: the chapter list, a rejected fetch, a body
\* response.json() rejects, the body `null`, or an object without a `data` key
SurahResponses == {"list", "networkError", "invalidJson", "nullBody", "noData"}

\* undefined, as the value of an array-typed expression: not a sequence
NoList == [k \in {0} |-> "undefined"]

\* fetchSurahs: `return data.data` inside the try, `return []` from the catch; reading
\* .data of null throws inside the try, reading it of an object without it does not
fetchSurahs(response) ==
  CASE response = "list"   -> SurahList
    [] response = "noData" -> NoList
    [] OTHER               -> <<>>

\* a lookup by position that falls back to the last verse
FindVerseClamped(ayat, verseNumber) ==
  IF verseNumber \in 1..Len(ayat) THEN ayat[verseNumber] ELSE ayat[Len(ayat)]

\* data.data.ayat.find(a => a.nomorAyat === verseNumber); return verse || null
FindVerse(ayat, verseNumber) ==
  IF \E i \in 1..Len(ayat) : ayat[i].nomorAyat = verseNumber
    THEN ayat[CHOOSE i \in 1..Len(ayat) : ayat[i].nomorAyat = verseNumber
                /\ \A j \in 1..(i - 1) : ayat[j].nomorAyat # verseNumber]
    ELSE Null

\* what GET /surat/{n} can come to: the server's answer for chapter n, a rejected
\* fetch, a body response.json() rejects, the body `null`, an object without a
\* `data` key, or a `data` object without an `ayat` key
VerseResponses == {"chapter", "networkError", "invalidJson", "nullBody", "noData", "noAyat"}

\* the value `await response.json()` yields when it yields one; the server has no
\* chapter data for a number outside its corpus
verseBody(surahNumber, response) ==
  CASE response = "chapter" /\ surahNumber \in SurahIds
                            -> [data |-> [ayat |-> Ayat(surahNumber)]]
    [] response = "noAyat"  -> [data |-> [nomor |-> surahNumber]]
    [] response \in {"chapter", "noData"}
                            -> [message |-> "error"]
    [] OTHER                -> Null

\* the try block of fetchVerse throws: fetch or json() rejects, or data.data.ayat.find
\* reads a property of null / undefined
fetchVerseThrows(surahNumber, response) ==
  \/ response \in {"networkError", "invalidJson"}
  \/ verseBody(surahNumber, response) = Null
  \/ "data" \notin DOMAIN verseBody(surahNumber, response)
  \/ "ayat" \notin DOMAIN verseBody(surahNumber, response).data

\* fetchVerse: `verse || null` from the try block, null from the catch block
fetchVerse(surahNumber, verseNumber, response) ==
  IF fetchVerseThrows(surahNumber, response)
    THEN Null
    ELSE FindVerse(verseBody(surahNumber, response).data.ayat, verseNumber)

----------------------------------------------------------------------------
(* localStorage values and the JSON / toString conversions *)

Missing  == [kind |-> "missing"]   \* getItem returns null
Garbage  == [kind |-> "garbage"]   \* a string JSON.parse rejects and Number() maps to NaN
Text(v)  == [kind |-> "text", value |-> v]

\* the settings keys whose value may be undefined
OptionalKeys == {"backgroundImage"}

\* JSON.stringify of an object omits the keys whose value is undefined
DropUndefined(obj) ==
  [k \in {f \in DOMAIN obj : ~(f \in OptionalKeys /\ obj[f] = Undefined)} |-> obj[k]]

\* obj.k : undefined when the key is absent
Get(obj, k) == IF k \in DOMAIN obj THEN obj[k] ELSE Undefined

\* { ...obj, ...upd }
Spread(obj, upd) ==
  [k \in DOMAIN obj \cup DOMAIN upd |-> IF k \in DOMAIN upd THEN upd[k] ELSE obj[k]]

stringifySettings(s) == Text(DropUndefined(s))

stringifyPresets(list) ==
  Text([i \in 1..Len(list) |->
         [id |-> list[i].id, name |-> list[i].name,
          settings |-> DropUndefined(list[i].settings)]])

\* Number(localStorage.getItem(key)) || 1
NumberOr1(item) == IF item.kind = "text" /\ item.value # 0 THEN item.value ELSE 1

AllMissing == [presets |-> Missing, settings |-> Missing, last_surah |-> Missing,
               last_verse |-> Missing, dark_mode |-> Missing]

----------------------------------------------------------------------------
(* useState initializers *)

DefaultSettings ==
  [backgroundColor |-> "#ffffff", backgroundImage |-> Undefined,
   isTransparent |-> FALSE, showSurahInfo |-> TRUE, showDivider |-> TRUE,
   showTranslation |-> TRUE, verticalPosition |-> "center"]

InitialSurah(rev, ls) == IF rev = "C" THEN NumberOr1(ls.last_surah) ELSE 1
InitialVerse(rev, ls) == IF rev = "C" THEN NumberOr1(ls.last_verse) ELSE 1
InitialDarkMode(rev, ls) == rev = "C" /\ ls.dark_mode = Text("true")
InitialSettings(rev, ls) ==
  IF rev = "C" /\ ls.settings.kind = "text" THEN ls.settings.value ELSE DefaultSettings

\* the state the component function builds on its first call
Construct(ls) ==
  /\ phase = "constructed"
  /\ localStorage = ls
  /\ surahs = <<>>
  /\ surahsPending = FALSE
  /\ searchTerm = <<>>
  /\ selectedSurah = InitialSurah(revision, ls)
  /\ selectedVerse = InitialVerse(revision, ls)
  /\ verseData = Null
  /\ loading = FALSE
  /\ pending = <<>>
  /\ latestResult = Null
  /\ exporting = FALSE
  /\ captures = <<>>
  /\ downloads = <<>>
  /\ exportLog = <<>>
  /\ settings = InitialSettings(revision, ls)
  /\ uploads = <<>>
  /\ presets = <<>>
  /\ presetName = <<>>
  /\ isDarkMode = InitialDarkMode(revision, ls)
  /\ loadedFrom = Null

Init ==
  /\ revision \in Revisions
  /\ now = 0
  /\ Construct(AllMissing)

\* persistence effects without the one on [selectedSurah, selectedVerse]
PersistWithoutSelection(ls, s, su, ve, dark) ==
  IF revision = "C"
    THEN [ls EXCEPT !.settings = stringifySettings(s),
                    !.dark_mode = Text(IF dark THEN "true" ELSE "false")]
    ELSE ls

\* the persistence effects of revision C: they rewrite their key after every render
\* in which their dependency changed
Persist(ls, s, su, ve, dark) ==
  IF revision = "C"
    THEN [ls EXCEPT !.settings = stringifySettings(s),
                    !.last_surah = Text(su), !.last_verse = Text(ve),
                    !.dark_mode = Text(IF dark THEN "true" ELSE "false")]
    ELSE ls

----------------------------------------------------------------------------
(* Verse loading *)

InFlight == [inflight |-> TRUE]

\* what loadVerse leaves in verseData once fetchVerse returned `data`
loadVerseResult(rev, held, data) ==
  IF rev = "C" THEN (IF data # Null THEN data ELSE held) ELSE data

\* mount effect: fetchSurahs().then(setSurahs); presets from localStorage; then the
\* loadVerse effect.  JSON.parse of a corrupt value throws inside the effect, which
\* unmounts the tree.
storedPresetsParse(item) == IF item.kind = "text" THEN item.value ELSE <<>>
mountCrashes(item) == item.kind = "garbage"

\* the first render reads settings.arabicFont, settings.isTransparent, ...: a
\* TypeError when the restored settings are null, which leaves nothing mounted
renderThrows(s) == s = Null

Mount ==
  /\ phase = "constructed"
  /\ localStorage' = IF renderThrows(settings)
                       THEN localStorage
                       ELSE Persist(localStorage, settings, selectedSurah, selectedVerse,
                                    isDarkMode)
  /\ IF renderThrows(settings) \/ mountCrashes(localStorage.presets)
       THEN /\ phase' = "crashed"
            /\ UNCHANGED <<surahVars, verseVars, presets>>
       ELSE /\ phase' = "mounted"
            /\ surahsPending' = TRUE
            /\ surahs' = surahs
            /\ presets' = storedPresetsParse(localStorage.presets)
            /\ loading' = TRUE
            /\ pending' = Append(pending, [surah |-> selectedSurah, verse |-> selectedVerse])
            /\ latestResult' = InFlight
            /\ UNCHANGED <<selectedSurah, selectedVerse, verseData>>
  /\ UNCHANGED <<revision, searchTerm, exportVars, settings, uploads, presetName, now,
                 isDarkMode, loadedFrom>>

\* the render after setSurahs(list): useMemo calls surahs.filter(...), a TypeError
\* when the list is undefined, which unmounts the tree
renderCrashes(list) == list = NoList

\* fetchSurahs() settles and .then(setSurahs) runs
FetchSurahsSettle(response) ==
  /\ phase = "mounted"
  /\ surahsPending
  /\ surahsPending' = FALSE
  /\ surahs' = fetchSurahs(response)
  /\ phase' = IF renderCrashes(fetchSurahs(response)) THEN "crashed" ELSE phase
  /\ UNCHANGED <<revision, localStorage, searchTerm, verseVars, exportVars, settings,
                 uploads, presetVars, now, isDarkMode, loadedFrom>>

\* n.toString(), as the sequence of its characters
RECURSIVE Digits(_)
Digits(n) == IF n < 10 THEN <<ToString(n)>> ELSE Digits(n \div 10) \o <<ToString(n % 10)>>

\* String.prototype.includes
Includes(str, term) ==
  \E i \in 0..(Len(str) - Len(term)) : SubSeq(str, i + 1, i + Len(term)) = term

\* filteredSurahs: the chapters whose number contains the search term (the terms
\* typed are digits, which no namaLatin contains)
filteredSurahs(list, term) == SelectSeq(list, LAMBDA c : Includes(Digits(c.nomor), term))

\* the search box: setSearchTerm(e.target.value)
setSearchTerm(term) ==
  /\ phase = "mounted"
  /\ term # searchTerm
  /\ searchTerm' = term
  /\ UNCHANGED <<revision, phase, localStorage, surahVars, verseVars, exportVars,
                 settings, uploads, presetVars, now, isDarkMode, loadedFrom>>

\* the effect on [selectedSurah, selectedVerse] calls loadVerse when either changed
SelectionChange(num, verse) ==
  /\ selectedSurah' = num
  /\ selectedVerse' = verse
  /\ IF <<num, verse>> # <<selectedSurah, selectedVerse>>
       THEN /\ Len(pending) < MaxPending
            /\ loading' = TRUE
            /\ pending' = Append(pending, [surah |-> num, verse |-> verse])
            /\ latestResult' = InFlight
       ELSE UNCHANGED <<loading, pending, latestResult>>
  /\ localStorage' = Persist(localStorage, settings, num, verse, isDarkMode)
  /\ UNCHANGED <<revision, phase, surahVars, verseData, exportVars, settings,
                 uploads, presetVars, now, isDarkMode, loadedFrom>>

\* a handler that leaves the verse ordinal where it was
verseAfterSurahChangeKept(held) == held

\* setSelectedVerse(1) in handleSurahChange and in the inline onChange of revision A
verseAfterSurahChange(held) == 1

\* handleSurahChange(num): setSelectedSurah(num); setSelectedVerse(1); setSearchTerm('').
\* The inline onChange of revision A does the first two only.
handleSurahChange(num) ==
  /\ phase = "mounted"
  /\ SelectionChange(num, verseAfterSurahChange(selectedVerse))
  /\ searchTerm' = IF revision = "A" THEN searchTerm ELSE <<>>

\* the <option>s of the chapter <select>: filteredSurahs in revision A, surahs in B and C
surahOptions == IF revision = "A" THEN filteredSurahs(surahs, searchTerm) ELSE surahs

\* the option the chapter <select value={selectedSurah}> displays: the matching one,
\* or the first when none matches
displayedSurah(options) ==
  IF \E i \in 1..Len(options) : options[i].nomor = selectedSurah
    THEN selectedSurah
    ELSE options[1].nomor

\* onChange of the chapter <select>: the user picks an option other than the displayed one
surahSelectChange(num) ==
  /\ phase = "mounted"
  /\ \E i \in 1..Len(surahOptions) : surahOptions[i].nomor = num
  /\ num # displayedSurah(surahOptions)
  /\ handleSurahChange(num)

\* onClick of a search suggestion, listed while searchTerm is not empty (revisions B, C)
searchResultClick(num) ==
  /\ phase = "mounted"
  /\ revision # "A"
  /\ searchTerm # <<>>
  /\ \E i \in 1..Len(filteredSurahs(surahs, searchTerm)) :
        filteredSurahs(surahs, searchTerm)[i].nomor = num
  /\ handleSurahChange(num)

\* the verse <select>: options 1..jumlahAyat of the selected chapter
VerseOptions ==
  IF \E i \in 1..Len(surahs) : surahs[i].nomor = selectedSurah
    THEN 1..surahs[CHOOSE i \in 1..Len(surahs) : surahs[i].nomor = selectedSurah].jumlahAyat
    ELSE {}

setSelectedVerse(v) ==
  /\ phase = "mounted"
  /\ v \in VerseOptions
  /\ v # selectedVerse
  /\ SelectionChange(selectedSurah, v)
  /\ UNCHANGED searchTerm

\* a setLoading(false) reached only when a verse came back
loadingAfterFetchOnData(data) == data = Null

\* setLoading(false), the last statement of loadVerse
loadingAfterFetch(data) == FALSE

\* loadVerse resumes after `await fetchVerse(...)` for the i-th fetch in flight
loadVerseResume(i, response) ==
  /\ phase = "mounted"
  /\ i \in 1..Len(pending)
  /\ LET data == fetchVerse(pending[i].surah, pending[i].verse, response) IN
       /\ verseData' = loadVerseResult(revision, verseData, data)
       /\ latestResult' = IF latestResult = InFlight /\ i = Len(pending)
                            THEN data ELSE latestResult
  /\ loading' = loadingAfterFetch(fetchVerse(pending[i].surah, pending[i].verse, response))
  /\ pending' = Remove(pending, i)
  /\ UNCHANGED <<revision, phase, localStorage, surahVars, searchTerm, selectedSurah, selectedVerse,
                 exportVars, settings, uploads, presetVars, now, isDarkMode, loadedFrom>>

\* what the preview pane shows in place of the text blocks
RenderBody ==
  IF loading THEN "spinner" ELSE IF verseData # Null THEN "blocks" ELSE "placeholder"

----------------------------------------------------------------------------
(* Layout of the text layer *)

\* the footer's class list with no classes added for the anchor "end"
footerClassesNoReorder(s) ==
  {"mt-8", "pt-5"}
    \cup (IF s.showDivider THEN {"border-t", "border-current/20"} ELSE {})

\* the conditional part of the metadata footer's className
footerClasses(s) ==
  {"mt-8", "pt-5"}
    \cup (IF s.showDivider THEN {"border-t", "border-current/20"} ELSE {})
    \cup (IF s.verticalPosition = "end"
            THEN {"order-first", "mb-8", "mt-0", "border-t-0", "pb-5"} ELSE {})
    \cup (IF s.verticalPosition = "end" /\ s.showDivider
            THEN {"border-b", "border-current/20"} ELSE {})

\* widths the utility classes resolve to: border-t-0 is emitted after border-t in
\* the stylesheet and so overrides it
borderTopWidth(classes) ==
  IF "border-t-0" \in classes THEN 0 ELSE IF "border-t" \in classes THEN 1 ELSE 0

borderBottomWidth(classes) == IF "border-b" \in classes THEN 1 ELSE 0

\* the flex order of an item: order-first is -9999, the default is 0
OrderFirst == 0 - 9999

flexOrder(classes) == IF "order-first" \in classes THEN OrderFirst ELSE 0

\* the children of the text layer in document order, when the blocks are shown
textLayerChildren(s) ==
  <<"arabic">>
    \o (IF s.showTranslation THEN <<"translation">> ELSE <<>>)
    \o (IF s.showSurahInfo THEN <<"footer">> ELSE <<>>)

\* a flex column lays its items out by order, document order breaking ties
layoutOrder(s) ==
  LET children == textLayerChildren(s)
      orderOf(c) == IF c = "footer" THEN flexOrder(footerClasses(s)) ELSE 0
  IN  SelectSeq(children, LAMBDA c : orderOf(c) < 0)
        \o SelectSeq(children, LAMBDA c : orderOf(c) >= 0)

----------------------------------------------------------------------------
(* Export *)

\* the background handed to the encoder when it is to stay transparent
NoBackground == "null"

\* the export buttons rendered: PNG and JPG in revisions A and B, PNG alone in C
ExportFormats(rev) == IF rev = "C" THEN {"png"} ELSE {"png", "jpg"}

\* the export buttons without their disabled attribute
ExportButtonAlwaysEnabled == TRUE

\* disabled={exporting} on the export buttons
ExportButtonEnabled == ~exporting

\* an encoder background that follows isTransparent whatever the format
exportBackgroundAnyFormat(s, format) ==
  IF s.isTransparent THEN NoBackground ELSE s.backgroundColor

\* options.backgroundColor
exportBackground(s, format) ==
  IF s.isTransparent /\ format = "png" THEN NoBackground ELSE s.backgroundColor

\* canvasRef.current: the preview <div> is rendered unconditionally, so the ref is
\* attached for as long as the component is mounted
canvasAttached == phase = "mounted"

\* a handleExport without its first line
exportProceedsAlways(attached) == TRUE

\* `if (!canvasRef.current) return;`
exportProceeds(attached) == attached

\* the body of handleExport up to `await toPng / toJpeg`
exportStart(format) ==
  /\ IF exportProceeds(canvasAttached)
       THEN /\ exporting' = TRUE
            /\ captures' = Append(captures,
                             [format |-> format,
                              backgroundColor |-> exportBackground(settings, format),
                              surah |-> selectedSurah, verse |-> selectedVerse])
       ELSE UNCHANGED <<exporting, captures>>
  /\ UNCHANGED <<revision, phase, localStorage, surahVars, searchTerm, verseVars,
                 downloads, exportLog, settings, uploads, presetVars, now,
                 isDarkMode, loadedFrom>>

\* handleExport called from an export button, which exists while the canvas does
handleExport(format) ==
  /\ phase = "mounted"
  /\ format \in ExportFormats(revision)
  /\ ExportButtonEnabled
  /\ canvasAttached
  /\ Len(captures) < MaxCaptures
  /\ Len(exportLog) + Len(captures) < MaxExports
  /\ exportStart(format)

\* handleExport called while the component has no committed DOM (before the first
\* commit or after the tree was unmounted): canvasRef.current is null
handleExportNoCanvas(format) ==
  /\ ~canvasAttached
  /\ format \in {"png", "jpg"}
  /\ Len(captures) < MaxCaptures
  /\ Len(exportLog) + Len(captures) < MaxExports
  /\ exportStart(format)

\* a name with the two ordinals in the other order
fileNameVerseFirst(surah, verse, format) ==
  <<"Quran-Ayat-", ToString(verse), "-", ToString(surah), ".", format>>

\* link.download = `Quran-Ayat-${selectedSurah}-${selectedVerse}.${format}`
fileName(surah, verse, format) ==
  <<"Quran-Ayat-", ToString(surah), "-", ToString(verse), ".", format>>

\* a link.click() placed in the finally block
downloadsAfterCaptureAlways(list, capture, captured) ==
  Append(list, [download |-> fileName(capture.surah, capture.verse, capture.format),
                format |-> capture.format, backgroundColor |-> capture.backgroundColor])

\* link.click() is reached only when the awaited toPng / toJpeg returned
downloadsAfterCapture(list, capture, captured) ==
  IF captured
    THEN Append(list, [download |-> fileName(capture.surah, capture.verse, capture.format),
                       format |-> capture.format,
                       backgroundColor |-> capture.backgroundColor])
    ELSE list

\* a setExporting(false) placed at the end of the try block
exportingAfterCaptureInTry(captured) == ~captured

\* finally { setExporting(false) }
exportingAfterCapture(captured) == FALSE

\* a completion that also puts the settings back to their defaults
handleExportResumeResetting(i, captured) ==
  /\ phase = "mounted"
  /\ i \in 1..Len(captures)
  /\ captures' = Remove(captures, i)
  /\ downloads' = downloadsAfterCapture(downloads, captures[i], captured)
  /\ exportLog' = Append(exportLog, IF captured THEN "captured" ELSE "failed")
  /\ exporting' = exportingAfterCapture(captured)
  /\ settings' = DefaultSettings
  /\ UNCHANGED <<revision, phase, localStorage, surahVars, searchTerm, verseVars,
                 uploads, presetVars, now, isDarkMode, loadedFrom>>

\* handleExport after the await: the download when the capture returned,
\* console.error when it threw, setExporting(false) in the finally block
handleExportResume(i, captured) ==
  /\ phase = "mounted"
  /\ i \in 1..Len(captures)
  /\ captures' = Remove(captures, i)
  /\ downloads' = downloadsAfterCapture(downloads, captures[i], captured)
  /\ exportLog' = Append(exportLog, IF captured THEN "captured" ELSE "failed")
  /\ exporting' = exportingAfterCapture(captured)
  /\ UNCHANGED <<revision, phase, localStorage, surahVars, searchTerm, verseVars,
                 settings, uploads, presetVars, now, isDarkMode, loadedFrom>>

\* the values of the useState hooks the render reads (activeTab and showInfoModal,
\* which only their own buttons set, are left out)
ViewState ==
  [surahs |-> surahs, searchTerm |-> searchTerm, selectedSurah |-> selectedSurah,
   selectedVerse |-> selectedVerse, verseData |-> verseData, loading |-> loading,
   exporting |-> exporting, settings |-> settings, presets |-> presets,
   presetName |-> presetName, isDarkMode |-> isDarkMode]

----------------------------------------------------------------------------
(* Settings edits *)

Colors == {"#ffffff", "#000000"}
Photos == {"data:image/1"}

\* setSettings(next), followed by the persistence effect of revision C
setSettings(next) ==
  /\ settings' = next
  /\ localStorage' = Persist(localStorage, next, selectedSurah, selectedVerse, isDarkMode)

\* the "transparent" checkbox: setSettings({...settings, isTransparent: checked})
setIsTransparent(checked) ==
  /\ phase = "mounted"
  /\ checked # settings.isTransparent
  /\ setSettings(Spread(settings, [isTransparent |-> checked]))
  /\ UNCHANGED <<revision, phase, surahVars, searchTerm, verseVars, exportVars, uploads,
                 presetVars, now, isDarkMode>>
  /\ loadedFrom' = Null

\* the colour input, rendered while !settings.isTransparent
setBackgroundColor(c) ==
  /\ phase = "mounted"
  /\ ~settings.isTransparent
  /\ c # settings.backgroundColor
  /\ setSettings(Spread(settings, [backgroundColor |-> c]))
  /\ UNCHANGED <<revision, phase, surahVars, searchTerm, verseVars, exportVars, uploads,
                 presetVars, now, isDarkMode>>
  /\ loadedFrom' = Null

\* handleImageUpload: the file input is rendered while !settings.isTransparent;
\* reader.onload closes over the settings of the render in which the file was chosen
handleImageUpload(file) ==
  /\ phase = "mounted"
  /\ ~settings.isTransparent
  /\ Len(uploads) < MaxUploads
  /\ uploads' = Append(uploads, [closure |-> settings, result |-> file])
  /\ UNCHANGED <<revision, phase, localStorage, surahVars, searchTerm, verseVars, exportVars,
                 settings, presetVars, now, isDarkMode, loadedFrom>>

\* the settings reader.onload installs
uploadedSettings(closure, result) ==
  Spread(closure, [backgroundImage |-> result, isTransparent |-> FALSE])

\* reader.onload fires for the i-th read in progress, or the read fails and it never does
readerSettle(i, loaded) ==
  /\ phase = "mounted"
  /\ i \in 1..Len(uploads)
  /\ uploads' = Remove(uploads, i)
  /\ IF loaded
       THEN setSettings(uploadedSettings(uploads[i].closure, uploads[i].result))
       ELSE UNCHANGED <<settings, localStorage>>
  /\ UNCHANGED <<revision, phase, surahVars, searchTerm, verseVars, exportVars, presetVars,
                 now, isDarkMode>>
  /\ loadedFrom' = IF loaded THEN Null ELSE loadedFrom

\* the layout controls: setSettings({...settings, verticalPosition: pos}) and the
\* two checkboxes
Positions == {"start", "center", "end"}

setVerticalPosition(pos) ==
  /\ phase = "mounted"
  /\ pos # settings.verticalPosition
  /\ setSettings(Spread(settings, [verticalPosition |-> pos]))
  /\ UNCHANGED <<revision, phase, surahVars, searchTerm, verseVars, exportVars, uploads,
                 presetVars, now, isDarkMode>>
  /\ loadedFrom' = Null

setShowSurahInfo(checked) ==
  /\ phase = "mounted"
  /\ checked # settings.showSurahInfo
  /\ setSettings(Spread(settings, [showSurahInfo |-> checked]))
  /\ UNCHANGED <<revision, phase, surahVars, searchTerm, verseVars, exportVars, uploads,
                 presetVars, now, isDarkMode>>
  /\ loadedFrom' = Null

setShowTranslation(checked) ==
  /\ phase = "mounted"
  /\ checked # settings.showTranslation
  /\ setSettings(Spread(settings, [showTranslation |-> checked]))
  /\ UNCHANGED <<revision, phase, surahVars, searchTerm, verseVars, exportVars, uploads,
                 presetVars, now, isDarkMode>>
  /\ loadedFrom' = Null

setShowDivider(checked) ==
  /\ phase = "mounted"
  /\ checked # settings.showDivider
  /\ setSettings(Spread(settings, [showDivider |-> checked]))
  /\ UNCHANGED <<revision, phase, surahVars, searchTerm, verseVars, exportVars, uploads,
                 presetVars, now, isDarkMode>>
  /\ loadedFrom' = Null

\* toggleDarkMode: setIsDarkMode(!isDarkMode), followed by its persistence effect
toggleDarkMode ==
  /\ phase = "mounted"
  /\ isDarkMode' = ~isDarkMode
  /\ localStorage' = Persist(localStorage, settings, selectedSurah, selectedVerse,
                             ~isDarkMode)
  /\ UNCHANGED <<revision, phase, surahVars, searchTerm, verseVars, exportVars, settings,
                 uploads, presetVars, now, loadedFrom>>

\* clearImage, defined in revision A only
clearImage ==
  /\ phase = "mounted"
  /\ revision = "A"
  /\ Get(settings, "backgroundImage") # Undefined
  /\ setSettings(Spread(settings, [backgroundImage |-> Undefined]))
  /\ UNCHANGED <<revision, phase, surahVars, searchTerm, verseVars, exportVars, uploads,
                 presetVars, now, isDarkMode>>
  /\ loadedFrom' = Null

----------------------------------------------------------------------------
(* Presets *)

RECURSIVE TrimStart(_)
TrimStart(str) ==
  IF str # <<>> /\ Head(str) = " " THEN TrimStart(Tail(str)) ELSE str

RECURSIVE TrimEnd(_)
TrimEnd(str) ==
  IF str # <<>> /\ str[Len(str)] = " " THEN TrimEnd(SubSeq(str, 1, Len(str) - 1)) ELSE str

\* a trim that removes nothing
TrimNothing(str) == str

\* String.prototype.trim, on a string held as its sequence of characters
Trim(str) == TrimEnd(TrimStart(str))

\* the name <input>: setPresetName(e.target.value)
setPresetName(name) ==
  /\ phase = "mounted"
  /\ name # presetName
  /\ presetName' = name
  /\ UNCHANGED <<revision, phase, localStorage, surahVars, searchTerm, verseVars, exportVars,
                 settings, uploads, presets, now, isDarkMode, loadedFrom>>

\* Date.now().toString()
newPresetId(clock) == ToString(clock)

\* the preset savePreset builds
newPreset(clock, name, s) ==
  [id |-> newPresetId(clock), name |-> name, settings |-> Spread(s, <<>>)]

\* a write of the list of the current render instead of the updated one
persistPresetsStale(ls, updated) == [ls EXCEPT !.presets = stringifyPresets(presets)]

\* what savePreset and deletePreset write under the presets key
persistPresets(ls, updated) == [ls EXCEPT !.presets = stringifyPresets(updated)]

savePreset ==
  /\ phase = "mounted"
  /\ IF Trim(presetName) = <<>>
       THEN UNCHANGED <<presets, presetName, localStorage>>
       ELSE /\ Len(presets) < MaxPresets
            /\ LET updated == Append(presets, newPreset(now, presetName, settings)) IN
                 /\ presets' = updated
                 /\ localStorage' = persistPresets(localStorage, updated)
            /\ presetName' = <<>>
  /\ UNCHANGED <<revision, phase, surahVars, searchTerm, verseVars, exportVars, settings,
                 uploads, now, isDarkMode, loadedFrom>>

\* a loadPreset that merges the preset over the defaults and loses the transparency flag
loadPresetSettingsLossy(preset) ==
  Spread(preset.settings, [isTransparent |-> DefaultSettings.isTransparent])

\* the settings loadPreset(preset) installs
loadPresetSettings(preset) == preset.settings

\* loadPreset(preset), from the button of the i-th preset
loadPreset(i) ==
  /\ phase = "mounted"
  /\ i \in 1..Len(presets)
  /\ setSettings(loadPresetSettings(presets[i]))
  /\ UNCHANGED <<revision, phase, surahVars, searchTerm, verseVars, exportVars, uploads,
                 presetVars, now, isDarkMode>>
  /\ loadedFrom' = presets[i]

\* presets.filter(p => p.id !== id)
filterOutId(list, id) == SelectSeq(list, LAMBDA p : p.id # id)

\* deletePreset(p.id), from the delete button of the i-th preset
deletePreset(i) ==
  /\ phase = "mounted"
  /\ i \in 1..Len(presets)
  /\ LET updated == filterOutId(presets, presets[i].id) IN
       /\ presets' = updated
       /\ localStorage' = persistPresets(localStorage, updated)
  /\ UNCHANGED <<revision, phase, surahVars, searchTerm, verseVars, exportVars, settings,
                 uploads, presetName, now, isDarkMode>>
  /\ loadedFrom' = Null

\* the clock Date.now() reads moves on
Tick ==
  /\ now < MaxClock
  /\ now' = now + 1
  /\ UNCHANGED <<revision, phase, localStorage, surahVars, searchTerm, verseVars, exportVars,
                 settings, uploads, presetVars, isDarkMode, loadedFrom>>

\* the page is reloaded: the component is constructed anew from localStorage
Reload ==
  /\ phase \in {"mounted", "crashed"}
  /\ phase' = "constructed"
  /\ surahs' = <<>>
  /\ surahsPending' = FALSE
  /\ searchTerm' = <<>>
  /\ selectedSurah' = InitialSurah(revision, localStorage)
  /\ selectedVerse' = InitialVerse(revision, localStorage)
  /\ verseData' = Null
  /\ loading' = FALSE
  /\ pending' = <<>>
  /\ latestResult' = Null
  /\ exporting' = FALSE
  /\ captures' = <<>>
  /\ downloads' = <<>>
  /\ exportLog' = <<>>
  /\ settings' = InitialSettings(revision, localStorage)
  /\ uploads' = <<>>
  /\ presets' = <<>>
  /\ presetName' = <<>>
  /\ isDarkMode' = InitialDarkMode(revision, localStorage)
  /\ loadedFrom' = Null
  /\ UNCHANGED <<revision, localStorage, now>>

----------------------------------------------------------------------------
(* Specifications *)

\* what the user types into the search box
SearchTerms == {<<>>, <<"1">>, <<"2">>}

NextVerse ==
  \/ Mount
  \/ \E response \in SurahResponses : FetchSurahsSettle(response)
  \/ \E term \in SearchTerms : setSearchTerm(term)
  \/ \E num \in SurahIds : surahSelectChange(num)
  \/ \E num \in SurahIds : searchResultClick(num)
  \/ \E v \in 1..(NumSurahs + 1) : setSelectedVerse(v)
  \/ \E i \in 1..MaxPending, response \in VerseResponses : loadVerseResume(i, response)

\* chapter/verse selection and verse loading
SpecVerse == Init /\ [][NextVerse]_vars

\* the same, with every started fetch settling in the end: a pending promise of
\* fetchVerse is resolved by the network stack, or by its catch block
SpecVerseFair ==
  /\ Init
  /\ [][NextVerse]_vars
  /\ WF_vars(\E i \in 1..MaxPending, response \in VerseResponses : loadVerseResume(i, response))

NextExport ==
  \/ Mount
  \/ \E format \in {"png", "jpg"} : handleExport(format)
  \/ \E format \in {"png", "jpg"} : handleExportNoCanvas(format)
  \/ \E i \in 1..MaxCaptures, captured \in BOOLEAN : handleExportResume(i, captured)
  \/ \E checked \in BOOLEAN : setIsTransparent(checked)
  \/ \E c \in Colors : setBackgroundColor(c)
  \/ \E file \in Photos : handleImageUpload(file)
  \/ \E i \in 1..MaxUploads, loaded \in BOOLEAN : readerSettle(i, loaded)

\* export, with the background settings it reads
SpecExport == Init /\ [][NextExport]_vars

\* the names typed into the preset name input
PresetNames == {<<"a">>, <<" ">>}

NextBackground ==
  \/ Mount
  \/ \E checked \in BOOLEAN : setIsTransparent(checked)
  \/ \E c \in Colors : setBackgroundColor(c)
  \/ \E file \in Photos : handleImageUpload(file)
  \/ \E i \in 1..MaxUploads, loaded \in BOOLEAN : readerSettle(i, loaded)
  \/ clearImage
  \/ \E name \in PresetNames : setPresetName(name)
  \/ savePreset
  \/ \E i \in 1..MaxPresets : loadPreset(i)

\* every edit of the background settings: checkbox, colour, photo, preset load
SpecBackground == Init /\ [][NextBackground]_vars

\* a browser profile whose presets key is absent or holds an unparseable string
InitStored ==
  /\ revision \in Revisions
  /\ now = 0
  /\ \E item \in {Missing, Garbage} : Construct([AllMissing EXCEPT !.presets = item])

NextPresets ==
  \/ Mount
  \/ Reload
  \/ Tick
  \/ \E checked \in BOOLEAN : setIsTransparent(checked)
  \/ \E name \in PresetNames : setPresetName(name)
  \/ savePreset
  \/ \E i \in 1..MaxPresets : loadPreset(i)
  \/ \E i \in 1..MaxPresets : deletePreset(i)

\* the preset store and its persistence, across page reloads
SpecPresets == InitStored /\ [][NextPresets]_vars

NextDownload ==
  \/ Mount
  \/ FetchSurahsSettle("list")
  \/ \E num \in SurahIds : surahSelectChange(num)
  \/ \E v \in 1..(NumSurahs + 1) : setSelectedVerse(v)
  \/ \E format \in {"png", "jpg"} : handleExport(format)
  \/ \E i \in 1..MaxCaptures : handleExportResume(i, TRUE)

\* exports made while the selection changes and the verse fetches stay pending
SpecDownload == Init /\ [][NextDownload]_vars

NextLayout ==
  \/ Mount
  \/ FetchSurahsSettle("list")
  \/ \E i \in 1..MaxPending, response \in {"chapter", "networkError"} :
        loadVerseResume(i, response)
  \/ \E pos \in Positions : setVerticalPosition(pos)
  \/ \E checked \in BOOLEAN : setShowSurahInfo(checked)
  \/ \E checked \in BOOLEAN : setShowDivider(checked)
  \/ \E checked \in BOOLEAN : setShowTranslation(checked)

\* the layout controls and the text layer they arrange
SpecLayout == Init /\ [][NextLayout]_vars

NextRestart ==
  \/ Mount
  \/ Reload
  \/ \E response \in {"list", "networkError"} : FetchSurahsSettle(response)
  \/ \E num \in SurahIds : surahSelectChange(num)
  \/ \E v \in 1..(NumSurahs + 1) : setSelectedVerse(v)
  \/ \E i \in 1..MaxPending, response \in {"chapter", "networkError"} :
        loadVerseResume(i, response)
  \/ \E checked \in BOOLEAN : setIsTransparent(checked)
  \/ toggleDarkMode

\* selection, settings and dark mode across page reloads
SpecRestart == Init /\ [][NextRestart]_vars

\* what a browser profile can hold under the selection keys: nothing, a string
\* Number() maps to NaN, "0", "2", and a number no chapter or verse has
StoredOrdinals == {Missing, Garbage, Text(0), Text(2), Text(NumSurahs + 5)}

\* settings as the colour input and the checkbox leave them, written by an earlier session
EditedSettings ==
  Spread(DefaultSettings, [backgroundColor |-> "#000000", isTransparent |-> TRUE])

\* under the settings key: nothing, a string JSON.parse rejects, the JSON texts
\* `null` and `{"isTransparent":true}`, and a settings object an earlier session wrote
StoredSettings ==
  {Missing, Garbage, Text(Null), Text([isTransparent |-> TRUE]),
   stringifySettings(EditedSettings)}

\* under the dark-mode key
StoredFlags == {Missing, Garbage, Text("true"), Text("false")}

\* a browser profile with any content under the four restored keys
InitAnyStorage ==
  /\ revision \in Revisions
  /\ now = 0
  /\ \E su \in StoredOrdinals, ve \in StoredOrdinals, st \in StoredSettings,
        dark \in StoredFlags :
        Construct([presets |-> Missing, settings |-> st, last_surah |-> su,
                   last_verse |-> ve, dark_mode |-> dark])

NextStartup ==
  \/ Mount
  \/ \E response \in {"list", "networkError"} : FetchSurahsSettle(response)
  \/ \E i \in 1..MaxPending, response \in VerseResponses : loadVerseResume(i, response)

\* startup from an arbitrary browser profile, and the first verse load
SpecStartup == InitAnyStorage /\ [][NextStartup]_vars

\* names with leading or trailing whitespace around a visible character
PaddedNames == {<<"a">>, <<" ">>, <<" ", "a">>, <<"a", " ">>}

NextNames ==
  \/ Mount
  \/ \E name \in PaddedNames \cup {<<>>} : setPresetName(name)
  \/ savePreset
  \/ \E i \in 1..MaxPresets : loadPreset(i)
  \/ \E i \in 1..MaxPresets : deletePreset(i)
  \/ \E checked \in BOOLEAN : setIsTransparent(checked)

\* the preset store under every kind of name typed into the name input
SpecNames == Init /\ [][NextNames]_vars

----------------------------------------------------------------------------
(* The preview pane's background layers, App.tsx 1123-1125 *)

renderBackground(s) ==
  [checkerboard |-> s.isTransparent,
   canvasColor  |-> IF s.isTransparent THEN "transparent" ELSE s.backgroundColor,
   photo        |-> Get(s, "backgroundImage") # Undefined]

----------------------------------------------------------------------------
(* Claims *)

\* C1: at most one export capture/encode is in flight at any time; while one is
\* pending the export buttons are disabled, so no trigger starts a second capture.
C1_OneExportInFlight ==
  /\ Len(captures) <= 1
  /\ (captures # <<>> => exporting)

C1_Witness == phase = "mounted" /\ exporting /\ Len(captures) = 1

\* C2: once every verse fetch in flight has resolved and the latest-triggered one
\* returned a verse, verseData is the verse of the current (selectedSurah, selectedVerse).
C2_LatestFetchApplied ==
  (phase = "mounted" /\ pending = <<>> /\ latestResult # Null)
    => verseData = fetchVerse(selectedSurah, selectedVerse, "chapter")

\* C3: when a verse fetch returns absent while a verse is held, the completion of
\* loadVerse leaves verseData absent and the preview shows the placeholder.
C3_FailedFetchClearsVerse ==
  [][((\E i \in 1..Len(pending), response \in VerseResponses :
          /\ loadVerseResume(i, response)
          /\ fetchVerse(pending[i].surah, pending[i].verse, response) = Null)
      /\ verseData # Null)
     => (verseData' = Null /\ RenderBody' = "placeholder")]_vars

\* C4: isTransparent is never true while a photo (backgroundImage) is set.
C4_OneBackgroundMode ==
  ~(settings.isTransparent /\ Get(settings, "backgroundImage") # Undefined)

\* C5: the preview renders exactly one background, resolved in the order
\* checkerboard (isTransparent), else photo, else solid backgroundColor; the photo
\* layer is not rendered when isTransparent is set.
C5_BackgroundResolution ==
  LET r == renderBackground(settings)
      hasPhoto == Get(settings, "backgroundImage") # Undefined
  IN  IF settings.isTransparent
        THEN r.checkerboard /\ ~r.photo
        ELSE IF hasPhoto
               THEN r.photo /\ ~r.checkerboard
               ELSE ~r.photo /\ ~r.checkerboard
                      /\ r.canvasColor = settings.backgroundColor

\* C6: deletePreset, from the delete button of one preset, removes exactly that
\* entry and leaves every other preset present, unchanged and in order.
C6_DeleteRemovesOne ==
  [][\A i \in 1..Len(presets) : deletePreset(i) => presets' = Remove(presets, i)]_vars

\* C7: no two presets in the collection have the same identifier.
C7_UniqueIds ==
  \A i, j \in 1..Len(presets) : i # j => presets[i].id # presets[j].id

\* C8: saving right after loading preset P (only the name typed in between) appends
\* a preset whose settings equal P's stored settings, in memory and as serialized,
\* and P is still in the list, unchanged.
C8_LoadSaveRoundTrip ==
  [][(savePreset /\ Trim(presetName) # <<>> /\ loadedFrom # Null)
     => LET saved == presets'[Len(presets')] IN
          /\ Len(presets') = Len(presets) + 1
          /\ saved.settings = loadedFrom.settings
          /\ stringifySettings(saved.settings) = stringifySettings(loadedFrom.settings)
          /\ \E j \in 1..Len(presets) : presets'[j] = loadedFrom]_vars

C8_Witness ==
  /\ phase = "mounted"
  /\ loadedFrom # Null
  /\ loadedFrom.settings # DefaultSettings
  /\ Len(presets) >= 2
  /\ presets[Len(presets)].settings = loadedFrom.settings
  /\ presets[Len(presets)].id # loadedFrom.id
  /\ presetName = <<>>

\* C9: while the component is mounted the presets key of localStorage holds the
\* serialization of the in-memory preset list (or is absent and the list is empty).
C9_PresetsWriteThrough ==
  phase = "mounted" =>
    IF localStorage.presets.kind = "text"
      THEN localStorage.presets = stringifyPresets(presets)
      ELSE presets = <<>>

C9_Witness ==
  /\ phase = "mounted"
  /\ Len(presets) = 1
  /\ presets[1].id = newPresetId(MaxClock)
  /\ localStorage.presets = stringifyPresets(presets)

\* C10: the mount effect yields an empty preset list when the stored value is
\* missing or corrupt, and the component stays mounted.
C10_StartupLoadTolerant ==
  [][(Mount /\ localStorage.presets.kind \in {"missing", "garbage"})
     => (phase' = "mounted" /\ presets' = <<>>)]_vars

\* C11: the number of downloads always equals the number of captures that completed
\* successfully: a completed capture adds exactly one download, a failed capture
\* and the start of an export add none.
C11_DownloadPerCompletedExport ==
  Len(downloads) = Cardinality({k \in 1..Len(exportLog) : exportLog[k] = "captured"})

C11_Witness ==
  /\ Len(downloads) = 1
  /\ Len(exportLog) = 2
  /\ exportLog[1] = "failed"
  /\ exportLog[2] = "captured"

\* C12: once no capture is pending the export-in-progress flag is released, after a
\* capture that returned as after one that threw, so the export buttons are enabled.
C12_ExportFlagReleased ==
  captures = <<>> => (~exporting /\ ExportButtonEnabled)

C12_Witness ==
  /\ exportLog # <<>>
  /\ exportLog[Len(exportLog)] = "failed"
  /\ Len(captures) = 1
  /\ exporting

\* C13: when a capture throws, the state the render reads after the failure differs
\* from the idle state it would be in had the export simply ended: the failure is
\* visible to the user.
C13_FailureVisible ==
  [][\A i \in 1..Len(captures) :
       handleExportResume(i, FALSE)
         => ViewState' # [ViewState EXCEPT !.exporting = FALSE]]_vars

\* C14: the start and the completion of an export, whatever the format and the
\* outcome, leave every part of the state but the export-in-progress flag
\* unchanged: settings, verse, selection, presets and what is persisted.
C14_ExportFrame ==
  [][((\E format \in {"png", "jpg"} : handleExport(format))
       \/ (\E i \in 1..Len(captures), captured \in BOOLEAN : handleExportResume(i, captured)))
     => /\ [ViewState EXCEPT !.exporting = FALSE]' = [ViewState EXCEPT !.exporting = FALSE]
        /\ UNCHANGED <<localStorage, uploads, pending>>]_vars

C14_Witness ==
  /\ settings.isTransparent
  /\ settings.backgroundColor # DefaultSettings.backgroundColor
  /\ Len(exportLog) = 2
  /\ exportLog[1] # exportLog[2]
  /\ ~exporting

\* C15: the background handed to the encoder is transparent exactly when the format
\* is png and isTransparent is set; in every other case, jpg with isTransparent set
\* included, it is the configured backgroundColor, an opaque colour.
C15_EncoderBackground ==
  [][\A format \in {"png", "jpg"} :
       handleExport(format)
         => LET handed == captures'[Len(captures')].backgroundColor IN
              /\ (handed = NoBackground) <=> (format = "png" /\ settings.isTransparent)
              /\ handed # NoBackground
                   => (handed = settings.backgroundColor /\ handed \in Colors)]_vars

C15_Witness ==
  /\ settings.isTransparent
  /\ Len(captures) = 1
  /\ captures[1].format = "jpg"
  /\ captures[1].backgroundColor = "#000000"

\* C16: every chapter selection, from the chapter dropdown or from a search result,
\* for every chapter and whatever the verse ordinal was, sets the verse ordinal to 1.
C16_SurahChangeResetsVerse ==
  [][\A num \in SurahIds :
       (surahSelectChange(num) \/ searchResultClick(num))
         => (selectedSurah' = num /\ selectedVerse' = 1)]_vars

C16_Witness ==
  /\ selectedSurah = 2
  /\ selectedVerse = 1
  /\ Len(pending) = 2
  /\ pending[1] = [surah |-> 1, verse |-> 2]
  /\ pending[2] = [surah |-> 2, verse |-> 1]

\* C17: whenever at least one verse fetch is in flight, loading is true and the
\* preview shows the spinner, neither the text blocks nor the placeholder.
C17_LoadingWhilePending ==
  (phase = "mounted" /\ pending # <<>>) => (loading /\ RenderBody = "spinner")

\* a name made of whitespace only (the empty name included)
IsBlank(str) == \A k \in 1..Len(str) : str[k] = " "

\* C18: savePreset with a name that is empty after trimming changes nothing: the
\* preset list, the persisted list, the live settings and the name input stay.
C18_BlankNameSaveIsNoOp ==
  [][(savePreset /\ IsBlank(presetName))
     => UNCHANGED <<presets, localStorage, settings, presetName>>]_vars

C18_Witness ==
  /\ phase = "mounted"
  /\ presetName = <<" ">>
  /\ Len(presets) = 1
  /\ localStorage.presets = stringifyPresets(presets)
  /\ settings # DefaultSettings

\* C19: every preset in the collection has a name that is non-empty and has no
\* leading or trailing whitespace.
C19_NamesTrimmed ==
  \A i \in 1..Len(presets) :
    /\ presets[i].name # <<>>
    /\ Head(presets[i].name) # " "
    /\ presets[i].name[Len(presets[i].name)] # " "

\* C20: fetchSurahs always hands its caller a sequence, the empty one for every
\* response other than a chapter list, and the component stays mounted.
C20_FetchSurahsReturnsSequence ==
  [][\A response \in SurahResponses :
       FetchSurahsSettle(response)
         => /\ surahs' # NoList
            /\ response # "list" => surahs' = <<>>
            /\ phase' = "mounted"]_vars

\* the verse the corpus holds for (s, v), absent when it holds none or the request fails
ExpectedVerse(s, v, response) ==
  IF response = "chapter" /\ s \in SurahIds /\ v \in 1..JumlahAyat(s)
    THEN [nomorAyat |-> v, teks |-> <<s, v>>]
    ELSE Null

\* C21: fetchVerse never throws: loadVerse always resumes with a value, the verse
\* whose nomorAyat is the requested ordinal when the chapter holds one, absent on a
\* network failure, a parse failure or when no verse has that ordinal.
C21_FetchVerseTotal ==
  [][\A i \in 1..Len(pending), response \in VerseResponses :
       loadVerseResume(i, response)
         => /\ phase' = "mounted"
            /\ verseData' = loadVerseResult(revision, verseData,
                              ExpectedVerse(pending[i].surah, pending[i].verse, response))]_vars

C21_Witness ==
  /\ phase = "mounted"
  /\ selectedSurah = 2
  /\ selectedVerse = NumSurahs + 5
  /\ pending = <<>>
  /\ verseData = Null
  /\ Len(surahs) = NumSurahs

\* a settings object with every mandatory key
WellFormedSettings(v) == (DOMAIN DefaultSettings \ OptionalKeys) \subseteq DOMAIN v

\* C22: whatever local storage holds at startup, each restored value is the validly
\* persisted one or the default, and the component mounts without an error.
C22_StartupRestoreTolerant ==
  /\ phase # "crashed"
  /\ phase = "constructed" =>
       /\ \/ selectedSurah = 1
          \/ /\ localStorage.last_surah = Text(selectedSurah)
             /\ selectedSurah \in SurahIds
       /\ \/ selectedVerse = 1
          \/ /\ localStorage.last_verse = Text(selectedVerse)
             /\ selectedSurah \in SurahIds
             /\ selectedVerse \in 1..JumlahAyat(selectedSurah)
       /\ \/ isDarkMode = FALSE
          \/ localStorage.dark_mode = Text("true")
       /\ \/ settings = DefaultSettings
          \/ /\ localStorage.settings = Text(settings)
             /\ WellFormedSettings(settings)

\* C23 (as stated): the downloaded file is named {chapter}-{verse}.{ext}.
C23_FileNamePlain ==
  [][\A i \in 1..Len(captures) :
       handleExportResume(i, TRUE)
         => downloads'[Len(downloads')].download
              = <<ToString(captures[i].surah), "-", ToString(captures[i].verse), ".",
                  captures[i].format>>]_vars

\* C23 (amended): the downloaded file is named Quran-Ayat-{chapter}-{verse}.{ext},
\* with the chapter and verse ordinals selected when the export was triggered and
\* the extension of the chosen format.
C23_FileNamePrefixed ==
  [][/\ \A format \in {"png", "jpg"} :
          handleExport(format)
            => /\ captures'[Len(captures')].surah = selectedSurah
               /\ captures'[Len(captures')].verse = selectedVerse
               /\ captures'[Len(captures')].format = format
     /\ \A i \in 1..Len(captures) :
          handleExportResume(i, TRUE)
            => downloads'[Len(downloads')].download
                 = <<"Quran-Ayat-", ToString(captures[i].surah), "-",
                     ToString(captures[i].verse), ".", captures[i].format>>]_vars

C23_Witness ==
  /\ Len(downloads) = 2
  /\ downloads[1].download = <<"Quran-Ayat-", "1", "-", "1", ".", "png">>
  /\ downloads[2].download = <<"Quran-Ayat-", "1", "-", "2", ".", "jpg">>

\* C24: handleExport called while no canvas is mounted changes nothing: the
\* export-in-progress flag stays false, no capture starts, no download is made.
C24_ExportWithoutCanvas ==
  [][\A format \in {"png", "jpg"} :
       (handleExportNoCanvas(format) /\ phase # "mounted")
         => (~exporting' /\ captures' = captures /\ downloads' = downloads)]_vars

C24_Witness ==
  /\ phase = "constructed"
  /\ ~canvasAttached
  /\ ~exporting
  /\ captures = <<>>
  /\ downloads = <<>>

\* C25: whenever the preview shows the verse text blocks, the verse shown is the one
\* selected: its ordinal is the selected verse ordinal printed in the footer.
C25_DisplayedVerseMatchesSelection ==
  (phase = "mounted" /\ RenderBody = "blocks") => verseData.nomorAyat = selectedVerse

\* C26: when a photo upload completes, the new settings differ from the settings
\* live at that moment only in backgroundImage and isTransparent.
C26_UploadKeepsEdits ==
  [][\A i \in 1..Len(uploads) :
       readerSettle(i, TRUE)
         => settings' = Spread(settings, [backgroundImage |-> uploads[i].result,
                                          isTransparent |-> FALSE])]_vars

\* the spinner is on screen
SpinnerShown == phase = "mounted" /\ loading

\* C28: the spinner is never shown in a state with no pending fetch, and, every
\* started fetch resolving in the end, a shown spinner eventually goes away.
C28_LoadingEnds ==
  /\ [](SpinnerShown => pending # <<>>)
  /\ (SpinnerShown ~> ~SpinnerShown)

C28_Witness ==
  /\ phase = "mounted"
  /\ ~loading
  /\ pending = <<>>
  /\ selectedSurah = 2
  /\ selectedVerse = 2
  /\ verseData # Null

C29_VerseOrdinalInRange ==
  (phase = "mounted" /\ surahs # <<>>)
    => /\ \E i \in 1..Len(surahs) : surahs[i].nomor = selectedSurah
       /\ selectedVerse \in VerseOptions
       /\ selectedVerse \in 1..JumlahAyat(selectedSurah)

C29_Witness ==
  /\ phase = "mounted"
  /\ Len(surahs) = NumSurahs
  /\ selectedSurah = 2
  /\ selectedVerse = 3
  /\ pending = <<[surah |-> 2, verse |-> 3]>>
  /\ verseData = Null

\* C30: whenever the text blocks are shown, the footer is in the text layer exactly
\* when showSurahInfo is set; for the anchors start and center it comes last, with
\* a top rule exactly when showDivider is set and no bottom rule; for the anchor end
\* it comes first, with a bottom rule exactly when showDivider is set and no top rule.
C30_LayoutByAnchor ==
  (phase = "mounted" /\ RenderBody = "blocks")
    => LET L == layoutOrder(settings)
           classes == footerClasses(settings)
           rule == IF settings.showDivider THEN 1 ELSE 0
       IN  /\ (\E i \in 1..Len(L) : L[i] = "footer") <=> settings.showSurahInfo
           /\ L[1] = "footer" \/ L[1] = "arabic"
           /\ settings.showSurahInfo
                => IF settings.verticalPosition = "end"
                     THEN /\ L[1] = "footer"
                          /\ borderTopWidth(classes) = 0
                          /\ borderBottomWidth(classes) = rule
                     ELSE /\ L[Len(L)] = "footer"
                          /\ borderTopWidth(classes) = rule
                          /\ borderBottomWidth(classes) = 0

C30_Witness ==
  /\ phase = "mounted"
  /\ RenderBody = "blocks"
  /\ settings.verticalPosition = "end"
  /\ settings.showSurahInfo
  /\ settings.showDivider
  /\ layoutOrder(settings) = <<"footer", "arabic", "translation">>

====
